---- MODULE Spec2Model ----
(***************************************************************************)
(* The reactive project session of next-swc's napi bindings                *)
(* (crates/napi/src/next_api/project.rs): subscriptions that recompute a   *)
(* view, hand the result to a JavaScript sink and wait for the next        *)
(* change, and the per-session HMR version state they advance.             *)
(* With them the project_update calls that replace the project's options,  *)
(* the update-info loop of project_update_info_subscribe, find_port and   *)
(* the statistics loop of the dev server (crates/next-dev/src/lib.rs), and *)
(* the functions that keep no state: NapiRoute::from_route, the conversion *)
(* of the project options, and get_client_runtime_entries                  *)
(* (crates/next-core/src/next_client/context.rs).                          *)
(***************************************************************************)
EXTENDS Integers, Sequences, FiniteSets, TLC

\* ------------------------------------------------------------------ bounds
MaxVersion == 1    \* version tokens 0..MaxVersion of a resource
MaxCycles  == 4    \* compute steps run in total
MaxWindows == 2    \* aggregation windows of the update-info loop
MaxTurns   == 4    \* turns of the dev server's statistics loop
MaxTasks   == 2    \* tasks the engine has in progress at once

Subs     == {1, 2}     \* the subscribe calls made on the project
Sessions == Subs       \* a call makes at most one session
Ids      == {1, 2}     \* the resource identifiers subscribed to
Versions == 0..MaxVersion
Configs  == {0, 1}     \* the options handed to project_update
Callers  == {1, 2}     \* the callers of project_update

U16Size          == 65536   \* port and attempts are u16
BuildMaxAttempts == 10      \* the max_attempts build calls find_port with
StartPorts       == {3000, 65526, 65527, 65530, 65535}
MaxAttempts      == {1, 3, BuildMaxAttempts}
BindOutcomes     == {"Ok", "AddrInUse", "PermissionDenied", "AddrNotAvailable", "NotIo"}

NoVersion == -1
NoSession == 0
NoDelta   == <<>>

VARIABLES
    \* the engine and the project container
    config,        \* the container's ProjectOptions
    resVersion,    \* resVersion[id]: version of the resource's current content
    versionState,  \* versionState[<<session, id>>]: the VersionState cell
    nextSession,   \* sessions handed out so far, plus one
    \* one subscription per subscribe call
    pc,            \* "idle", "wait", "call", "stopped"
    kind,          \* "hmr", "entrypoints", "identifiers"
    ident,         \* the identifier of a project_hmr_events call
    session,       \* the TransientInstance of a project_hmr_events call
    dirty,         \* the root task is due: just spawned, or a dependency changed
    result,        \* what the last compute step returned
    sink,          \* the last envelope the JavaScript callback was given
    stopReason,    \* why the subscription stopped
    \* bookkeeping for the properties
    computes,      \* compute steps run
    delivered,     \* envelopes the sink accepted
    errReports,    \* errors the sink accepted
    engineFailed,  \* the engine raised an error in a compute step
    readFrom,      \* the version the last compute step handed to hmr_update
    stale,         \* that version was one the content could not diff against
    signals,       \* change signals that marked the waiting root task due
    \* the project instance and its update-info loop
    dropped,       \* the host let go of the ProjectInstance
    aggPc,         \* "idle", "wait", "call", "stopped"
    aggWindows,    \* aggregation windows the loop waited for
    aggCalls,      \* summaries the loop handed to its sink
    aggStatus,     \* the status of the loop's last func.call
    \* the project_update calls in flight
    upd,           \* upd[u]: where the call of caller u is, and its options
    \* one find_port call of the dev server builder
    fpPc,          \* "idle", "loop", "returned", "panicked"
    fpArgs,        \* port, max_attempts, allow_retry and the build's checks
    fpAttempts,    \* the local `attempts`
    fpBinds,       \* the DevServer::listen calls made, in order
    fpNotices,     \* the lines printed, in order
    fpResult,      \* what the call returned
    \* the statistics loop of the dev server
    stPc,          \* "idle", "await", "exited"
    stProfile,     \* the build has the profile feature
    progress_counter,
    stHistory,     \* what each await of the loop returned, in order
    stTasks,       \* the engine's count of tasks in progress
    stExpired,     \* a profile timeout expired during the current await
    \* one call of a function that keeps no state
    call           \* the function, its arguments and what it returned

engineVars == <<config, resVersion, versionState, nextSession>>
subVars    == <<pc, kind, ident, session, dirty, result, sink, stopReason>>
histVars   == <<computes, delivered, errReports, engineFailed, readFrom, stale>>
loopVars   == <<dropped, aggPc, aggWindows, aggCalls, aggStatus>>
portVars   == <<fpPc, fpArgs, fpAttempts, fpBinds, fpNotices, fpResult>>
statVars   == <<stPc, stProfile, progress_counter, stHistory, stTasks, stExpired>>
devVars    == <<portVars, statVars, call>>
vars       == <<engineVars, subVars, histVars, signals, loopVars, upd, devVars>>

\* ----------------------------------------------------------------- values
\* The options the host hands to project_new and project_update. An
\* Option is the empty tuple for None and a one-element tuple for Some.
NapiProjectOptions(c) ==
    [root_path |-> "/repo", project_path |-> "/repo/app", dist_dir |-> <<"out">>,
     watch |-> c = 1, next_config |-> c, js_config |-> "{}",
     env |-> <<[name |-> "A", value |-> "1"]>>, server_addr |-> "127.0.0.1:3000"]

\* .into_iter().map(|NapiEnvVar { name, value }| (name, value)).collect():
\* the pairs in the order given, a later pair replacing an earlier one of
\* the same name.
EnvCollect(env) ==
    [n \in {env[i].name : i \in 1..Len(env)} |->
        env[CHOOSE i \in 1..Len(env) :
                /\ env[i].name = n
                /\ \A j \in (i + 1)..Len(env) : env[j].name # n].value]

\* impl From<NapiProjectOptions> for ProjectOptions: the fields the
\* conversion names, one by one.
ProjectOptions(val) ==
    [root_path |-> val.root_path, project_path |-> val.project_path,
     watch |-> val.watch, next_config |-> val.next_config,
     js_config |-> val.js_config, env |-> EnvCollect(val.env),
     server_addr |-> val.server_addr]

\* No snapshot of a view.
NoValue == [watch |-> FALSE, next_config |-> -1]

\* turbopack's Update: None, Total{to}, Partial{to, instruction}
UpdateNone == [kind |-> "None", to |-> NoVersion, instruction |-> NoDelta]

UpdateTotal(to) == [kind |-> "Total", to |-> to, instruction |-> NoDelta]

UpdatePartial(to, delta) == [kind |-> "Partial", to |-> to, instruction |-> delta]

NoResult == [ok |-> TRUE, update |-> UpdateNone, value |-> NoValue]

\* No project_update call made, no find_port call made, nothing returned.
NoUpdate == [pc |-> "idle", options |-> NoValue, rejected |-> FALSE, ret |-> "none"]

NoArgs == [port |-> 0, max_attempts |-> 0, allow_retry |-> FALSE, checked |-> FALSE]

NoCall == [fn |-> "none"]

NoListener == [ok |-> FALSE, port |-> -1, kind |-> "none"]

NoEnvelope == [type |-> "nothing", path |-> 0, instruction |-> NoDelta, value |-> NoValue]

Active(s) == pc[s] \in {"wait", "call"}

Cycles == computes[1] + computes[2]

StateKey(s) == <<session[s], ident[s]>>

\* ------------------------------------------------------- the engine facade
\* VersionState::new(first seen version) on the first lookup of a
\* (session, identifier) pair, the same cell on every later lookup.
VersionStateGet(k) ==
    IF versionState[k] = NoVersion THEN resVersion[k[2]] ELSE versionState[k]

\* hmr_update(identifier, from): the content's update relative to `from`,
\* a delta when the content recognises `from` as a version it can diff
\* against and a total update when it does not.
hmr_update(id, from, recognised) ==
    IF from = resVersion[id] THEN UpdateNone
    ELSE IF recognised
         THEN UpdatePartial(resVersion[id], <<from, resVersion[id]>>)
         ELSE UpdateTotal(resVersion[id])

\* The dependents of a changed cell are told: every live subscription in S
\* is marked on top of the marks in `base`.
Invalidate(base, S) ==
    [s \in Subs |-> IF s \in S /\ Active(s) THEN TRUE ELSE base[s]]

\* The change signals counted: one for every root task that was not due
\* before the change and is due after it. A change that finds the task due
\* already is not counted, so the count is a lower bound of the signals the
\* subscription received.
Received(before, after) ==
    [s \in Subs |-> IF after[s] /\ ~before[s] THEN signals[s] + 1 ELSE signals[s]]

\* ------------------------------------------------------------------- Init
Init ==
    /\ config = ProjectOptions(NapiProjectOptions(0))
    /\ resVersion = [i \in Ids |-> 0]
    /\ versionState = [k \in Sessions \X Ids |-> NoVersion]
    /\ nextSession = 1
    /\ pc = [s \in Subs |-> "idle"]
    /\ kind = [s \in Subs |-> "none"]
    /\ ident = [s \in Subs |-> 0]
    /\ session = [s \in Subs |-> NoSession]
    /\ dirty = [s \in Subs |-> FALSE]
    /\ result = [s \in Subs |-> NoResult]
    /\ sink = [s \in Subs |-> NoEnvelope]
    /\ stopReason = [s \in Subs |-> "none"]
    /\ computes = [s \in Subs |-> 0]
    /\ delivered = [s \in Subs |-> 0]
    /\ errReports = [s \in Subs |-> 0]
    /\ engineFailed = [s \in Subs |-> FALSE]
    /\ readFrom = [s \in Subs |-> NoVersion]
    /\ stale = [s \in Subs |-> FALSE]
    /\ signals = [s \in Subs |-> 0]
    /\ dropped = FALSE
    /\ aggPc = "idle"
    /\ aggWindows = 0
    /\ aggCalls = 0
    /\ aggStatus = "none"
    /\ upd = [u \in Callers |-> NoUpdate]
    /\ fpPc = "idle"
    /\ fpArgs = NoArgs
    /\ fpAttempts = 0
    /\ fpBinds = <<>>
    /\ fpNotices = <<>>
    /\ fpResult = NoListener
    /\ stPc = "idle"
    /\ stProfile = FALSE
    /\ progress_counter = 0
    /\ stHistory = <<>>
    /\ stTasks = 0
    /\ stExpired = FALSE
    /\ call = NoCall

\* ------------------------------------------------- the environment's steps
\* A source file of resource `id` changes: the content has another version
\* and the subscriptions that read it are invalidated.
SourceChange(id) ==
    /\ \E v \in Versions \ {resVersion[id]} :
          resVersion' = [resVersion EXCEPT ![id] = v]
    /\ dirty' = Invalidate(dirty, {s \in Subs : kind[s] = "hmr" => ident[s] = id})
    /\ signals' = Received(dirty, dirty')
    /\ UNCHANGED <<config, versionState, nextSession>>
    /\ UNCHANGED <<pc, kind, ident, session, result, sink, stopReason>>
    /\ UNCHANGED <<histVars, loopVars, upd, devVars>>

\* project_update: the container's options are replaced inside one run_once
\* and every view computed from them is invalidated.
project_update(c) ==
    /\ ProjectOptions(NapiProjectOptions(c)) # config
    /\ config' = ProjectOptions(NapiProjectOptions(c))
    /\ dirty' = Invalidate(dirty, Subs)
    /\ signals' = Received(dirty, dirty')
    /\ UNCHANGED <<resVersion, versionState, nextSession>>
    /\ UNCHANGED <<pc, kind, ident, session, result, sink, stopReason>>
    /\ UNCHANGED <<histVars, loopVars, upd, devVars>>

\* project_update up to the await of run_once: the options are converted
\* and the update is handed to the engine as a once task.
project_update_call(u, c) ==
    /\ upd[u].pc = "idle"
    /\ ~dropped
    /\ upd' = [upd EXCEPT ![u] = [pc |-> "run",
                                  options |-> ProjectOptions(NapiProjectOptions(c)),
                                  rejected |-> FALSE, ret |-> "none"]]
    /\ UNCHANGED <<engineVars, subVars, histVars, signals, loopVars, devVars>>

\* Only `watch` taken from the new options.
ContainerUpdateWatchOnly(old, options) == [old EXCEPT !.watch = options.watch]

\* `watch` left as it was.
ContainerUpdateKeepsWatch(old, options) == [options EXCEPT !.watch = old.watch]

\* ProjectContainer::update: the options are replaced as a whole.
ContainerUpdate(old, options) == options

\* The error of the once task dropped.
UpdateResultSwallowsError(rejected) == "ok"

\* .await.map_err(...)?; Ok(()): the error of the once task is the error of
\* the call.
UpdateResult(rejected) == IF rejected THEN "err" ELSE "ok"

\* The once task of project_update and the return of the call: the options
\* are rejected, or they replace the container's and every view computed
\* from the container is invalidated.
project_update_run(u) ==
    /\ upd[u].pc = "run"
    /\ \E rejected \in BOOLEAN :
          /\ config' = IF rejected THEN config
                        ELSE ContainerUpdate(config, upd[u].options)
          /\ dirty' = IF rejected THEN dirty ELSE Invalidate(dirty, Subs)
          /\ upd' = [upd EXCEPT ![u] = [@ EXCEPT !.pc = "done",
                                                 !.rejected = rejected,
                                                 !.ret = UpdateResult(rejected)]]
    /\ signals' = Received(dirty, dirty')
    /\ UNCHANGED <<resVersion, versionState, nextSession>>
    /\ UNCHANGED <<pc, kind, ident, session, result, sink, stopReason>>
    /\ UNCHANGED <<histVars, loopVars, devVars>>

\* ------------------------------------------------------ the subscribe calls
\* Every call handing out one and the same session, the first.
NewSessionShared == CHOOSE x \in Sessions : \A y \in Sessions : x <= y

\* TransientInstance::new(()): a session no other call holds.
NewSession == nextSession

\* The s-th subscribe call made on the project.
Subscribed(s, k, id, sess) ==
    /\ pc[s] = "idle"
    /\ ~dropped
    /\ \A t \in Subs : t < s => pc[t] # "idle"
    /\ pc' = [pc EXCEPT ![s] = "wait"]
    /\ dirty' = [dirty EXCEPT ![s] = TRUE]
    /\ kind' = [kind EXCEPT ![s] = k]
    /\ ident' = [ident EXCEPT ![s] = id]
    /\ session' = [session EXCEPT ![s] = sess]
    /\ UNCHANGED <<config, resVersion, versionState>>
    /\ UNCHANGED <<result, sink, stopReason>>
    /\ UNCHANGED <<histVars, signals, loopVars, upd, devVars>>

project_entrypoints_subscribe(s) ==
    /\ Subscribed(s, "entrypoints", 0, NoSession)
    /\ UNCHANGED nextSession

project_hmr_identifiers_subscribe(s) ==
    /\ Subscribed(s, "identifiers", 0, NoSession)
    /\ UNCHANGED nextSession

project_hmr_events(s, id) ==
    /\ Subscribed(s, "hmr", id, NewSession)
    /\ nextSession' = nextSession + 1

\* --------------------------------------------------------- the compute steps
\* An engine error dropped: the closure returns a snapshot all the same.
ComputeOutcomeSwallowsError(fail, update, value) ==
    [ok |-> TRUE, update |-> update, value |-> value]

\* `?` on every await of a compute closure: an engine error is the closure's
\* result, otherwise the snapshot. The issues and diagnostics collected with
\* a snapshot travel with it to the sink as they are and are left out.
ComputeOutcome(fail, update, value) ==
    IF fail
    THEN [ok |-> FALSE, update |-> UpdateNone, value |-> NoValue]
    ELSE [ok |-> TRUE, update |-> update, value |-> value]

\* A root task run again while its last result is still on its way to the
\* sink.
RootTaskReadyWhileCalling(s) == pc[s] \in {"wait", "call"} /\ dirty[s]

\* A root task run again on a timer, changed or not.
RootTaskReadyPolling(s) == pc[s] = "wait"

\* The root task of a subscription runs when its last result was handed
\* over and it is due: just spawned, or a dependency changed since.
RootTaskReady(s) == pc[s] = "wait" /\ dirty[s]

\* What every compute step shares.
Computed(s, fail) ==
    /\ RootTaskReady(s)
    /\ ~dropped
    /\ Cycles < MaxCycles
    /\ pc' = [pc EXCEPT ![s] = "call"]
    /\ computes' = [computes EXCEPT ![s] = @ + 1]
    /\ engineFailed' = [engineFailed EXCEPT ![s] = @ \/ fail]
    /\ UNCHANGED <<config, resVersion, nextSession>>
    /\ UNCHANGED <<kind, ident, session, sink, stopReason>>
    /\ UNCHANGED <<delivered, errReports>>
    /\ UNCHANGED <<loopVars, upd, devVars>>

\* The entrypoints of the first cycle handed out again in every later one.
EntrypointsSnapshotCached(s) ==
    IF computes[s] > 0 /\ result[s].ok THEN result[s].value ELSE config

\* container.entrypoints().strongly_consistent(): the entrypoints as the
\* container's options of the moment give them, read in one piece.
EntrypointsSnapshot(s) == config

\* The closure of project_entrypoints_subscribe.
entrypoints_compute(s) ==
    /\ kind[s] = "entrypoints"
    /\ \E fail \in BOOLEAN :
          /\ Computed(s, fail)
          /\ result' = [result EXCEPT ![s] =
                           ComputeOutcome(fail, UpdateNone, EntrypointsSnapshot(s))]
    /\ dirty' = [dirty EXCEPT ![s] = FALSE]
    /\ UNCHANGED <<versionState, readFrom, stale, signals>>

\* The closure of project_hmr_identifiers_subscribe.
hmr_identifiers_compute(s) ==
    /\ kind[s] = "identifiers"
    /\ \E fail \in BOOLEAN :
          /\ Computed(s, fail)
          /\ result' = [result EXCEPT ![s] = ComputeOutcome(fail, UpdateNone, config)]
    /\ dirty' = [dirty EXCEPT ![s] = FALSE]
    /\ UNCHANGED <<versionState, readFrom, stale, signals>>

\* A session that differs from one cycle to the next.
HmrSessionPerCycle(s) == (computes[s] % 2) + 1

\* The session a cycle of project_hmr_events looks its state up with: the
\* clone of the one session made by the call.
HmrSession(s) == session[s]

\* The state of the session, looked up for another identifier.
HmrStateKeyOtherIdentifier(s) == <<HmrSession(s), 3 - ident[s]>>

\* The state handed to hmr_update: hmr_version_state(identifier, session).
HmrStateKey(s) == <<HmrSession(s), ident[s]>>

\* state.set called in the Update::None arm too.
HmrStateAfterSetsOnNone(update, from) == update.to

\* state.set left out of the Update::Total arm.
HmrStateAfterSkipsTotal(update, from) ==
    IF update.kind = "Partial" THEN update.to ELSE from

\* match &*update: what the state holds when the closure returns.
HmrStateAfter(update, from) ==
    CASE update.kind = "None"    -> from
      [] update.kind = "Total"   -> update.to
      [] update.kind = "Partial" -> update.to

\* The closure of project_hmr_events.
hmr_compute(s) ==
    /\ kind[s] = "hmr"
    /\ \E fail \in BOOLEAN, recognised \in BOOLEAN :
          LET k      == HmrStateKey(s)
              from   == VersionStateGet(k)
              update == hmr_update(ident[s], from, recognised)
              after  == IF fail THEN from ELSE HmrStateAfter(update, from)
          IN
          /\ Computed(s, fail)
          /\ result' = [result EXCEPT ![s] = ComputeOutcome(fail, update, NoValue)]
          /\ versionState' = [versionState EXCEPT ![k] = after]
          \* state.set invalidates what read the cell: this session's update
          /\ dirty' = Invalidate([dirty EXCEPT ![s] = FALSE],
                                 IF after # from
                                 THEN {t \in Subs : kind[t] = "hmr" /\ HmrStateKey(t) = k}
                                 ELSE {})
          /\ signals' = Received([dirty EXCEPT ![s] = FALSE], dirty')
          /\ readFrom' = [readFrom EXCEPT ![s] = from]
          /\ stale' = [stale EXCEPT ![s] = from # resVersion[ident[s]] /\ ~recognised]

\* ---------------------------------------------------------------- mappers
\* Update::Total mapped like Update::None.
HmrMapperTotalAsIssues(res, id) ==
    [type |-> IF res.update.kind = "Partial" THEN "partial" ELSE "issues",
     path |-> id,
     instruction |-> IF res.update.kind = "Partial"
                     THEN res.update.instruction ELSE NoDelta,
     value |-> NoValue]

\* The partial instruction built without the update's delta.
HmrMapperDropsDelta(res, id) ==
    [type |-> CASE res.update.kind = "Total"   -> "restart"
                [] res.update.kind = "Partial" -> "partial"
                [] res.update.kind = "None"    -> "issues",
     path |-> id,
     instruction |-> NoDelta,
     value |-> NoValue]

\* The mapper of project_hmr_events: the ClientUpdateInstruction for the
\* subscribed identifier.
HmrMapper(res, id) ==
    [type |-> CASE res.update.kind = "Total"   -> "restart"
                [] res.update.kind = "Partial" -> "partial"
                [] res.update.kind = "None"    -> "issues",
     path |-> id,
     instruction |-> IF res.update.kind = "Partial"
                     THEN res.update.instruction ELSE NoDelta,
     value |-> NoValue]

\* The mapper of project_entrypoints_subscribe.
EntrypointsMapper(res) ==
    [type |-> "entrypoints", path |-> 0, instruction |-> NoDelta, value |-> res.value]

\* The mapper of project_hmr_identifiers_subscribe.
HmrIdentifiersMapper(res) ==
    [type |-> "identifiers", path |-> 0, instruction |-> NoDelta, value |-> res.value]

\* ------------------------------------------------- subscribe (utils.rs)
\* A failed compute step reaches the sink as one pretty-printed error.
ErrorEnvelope ==
    [type |-> "error", path |-> 0, instruction |-> NoDelta, value |-> NoValue]

Envelope(s) ==
    IF ~result[s].ok THEN ErrorEnvelope
    ELSE CASE kind[s] = "hmr"         -> HmrMapper(result[s], ident[s])
           [] kind[s] = "entrypoints" -> EntrypointsMapper(result[s])
           [] kind[s] = "identifiers" -> HmrIdentifiersMapper(result[s])

\* The status of the call ignored.
AfterCallIgnoresStatus(ok, status) ==
    IF ok THEN "wait" ELSE "stopped"

\* Where the subscription goes after handing a result to the sink: it waits
\* for the next change after an accepted snapshot, and stops after an error
\* or when the sink is closed.
AfterCall(ok, status) ==
    IF status = "Ok" /\ ok THEN "wait" ELSE "stopped"

WhyStopped(ok, status) ==
    IF status # "Ok" THEN "detached" ELSE IF ok THEN "none" ELSE "error"

\* func.call(result): the delivery step.
subscribe_call(s) ==
    /\ pc[s] = "call"
    /\ \E status \in {"Ok", "Closing"} :
          /\ pc' = [pc EXCEPT ![s] = AfterCall(result[s].ok, status)]
          /\ stopReason' = [stopReason EXCEPT ![s] = WhyStopped(result[s].ok, status)]
          /\ sink' = [sink EXCEPT ![s] = IF status = "Ok" THEN Envelope(s) ELSE @]
          /\ delivered' = [delivered EXCEPT ![s] =
                             IF status = "Ok" /\ result[s].ok THEN @ + 1 ELSE @]
          /\ errReports' = [errReports EXCEPT ![s] =
                              IF status = "Ok" /\ ~result[s].ok THEN @ + 1 ELSE @]
    /\ UNCHANGED engineVars
    /\ UNCHANGED <<kind, ident, session, dirty, result>>
    /\ UNCHANGED <<computes, engineFailed, readFrom, stale>>
    /\ UNCHANGED <<signals, loopVars, upd, devVars>>

\* ------------------------------------------- project_update_info_subscribe
\* project_update_info_subscribe: the threadsafe function is made and the
\* loop is spawned on the runtime, holding its own clone of turbo_tasks.
project_update_info_subscribe ==
    /\ aggPc = "idle"
    /\ ~dropped
    /\ aggPc' = "wait"
    /\ UNCHANGED <<dropped, aggWindows, aggCalls, aggStatus>>
    /\ UNCHANGED <<engineVars, subVars, histVars, signals, upd, devVars>>

\* get_or_wait_aggregated_update_info(1 s).await: the window ends with the
\* statistics gathered in it, after a second at the latest.
update_info_wait ==
    /\ aggPc = "wait"
    /\ aggWindows < MaxWindows
    /\ aggPc' = "call"
    /\ aggWindows' = aggWindows + 1
    /\ UNCHANGED <<dropped, aggCalls, aggStatus>>
    /\ UNCHANGED <<engineVars, subVars, histVars, signals, upd, devVars>>

\* Leaving the loop by ending the process and every subscription with it.
BreakScopeProcess == Subs

\* `break` leaves the loop of the spawned task: no subscription is stopped.
BreakScope == {}

\* A loop that goes on whatever the status.
AfterUpdateInfoCallIgnoresStatus(status) == "wait"

\* if !matches!(status, Status::Ok) { ...; break; }
AfterUpdateInfoCall(status) == IF status = "Ok" THEN "wait" ELSE "stopped"

\* func.call(Ok(update_info), NonBlocking) and the test of its status.
update_info_call ==
    /\ aggPc = "call"
    /\ \E status \in {"Ok", "Closing"} :
          /\ aggPc' = AfterUpdateInfoCall(status)
          /\ aggStatus' = status
          /\ pc' = [s \in Subs |->
                       IF status # "Ok" /\ s \in BreakScope THEN "stopped" ELSE pc[s]]
    /\ aggCalls' = aggCalls + 1
    /\ UNCHANGED <<dropped, aggWindows>>
    /\ UNCHANGED <<kind, ident, session, dirty, result, sink, stopReason>>
    /\ UNCHANGED <<engineVars, histVars, signals, upd, devVars>>

\* ------------------------------------------------------------ the teardown
\* The host lets go of the External<ProjectInstance>: its turbo_tasks clone,
\* its container handle and its guard are dropped.
project_drop ==
    /\ ~dropped
    /\ dropped' = TRUE
    /\ UNCHANGED <<aggPc, aggWindows, aggCalls, aggStatus>>
    /\ UNCHANGED <<engineVars, subVars, histVars, signals, upd, devVars>>

\* A subscription waiting for a change when its project is gone ends as if
\* its sink were closed.
subscribe_cancelled(s) ==
    /\ dropped
    /\ pc[s] = "wait"
    /\ pc' = [pc EXCEPT ![s] = "stopped"]
    /\ stopReason' = [stopReason EXCEPT ![s] = "detached"]
    /\ UNCHANGED <<kind, ident, session, dirty, result, sink>>
    /\ UNCHANGED <<engineVars, histVars, signals, loopVars, upd, devVars>>

\* ---------------------------------------------------- find_port (next-dev)
\* a + b on u16: the sum wraps where overflow is not checked, and the
\* thread panics where it is.
Overflows(a, b) == a + b >= U16Size

WrappingAdd(a, b) == (a + b) % U16Size

\* let max_attempts = max_attempts - 1; let mut attempts = 0;
find_port_call(port, max_attempts, allow_retry, checked) ==
    /\ fpPc = "idle"
    /\ fpPc' = "loop"
    /\ fpArgs' = [port |-> port, max_attempts |-> max_attempts,
                  allow_retry |-> allow_retry, checked |-> checked]
    /\ fpAttempts' = 0
    /\ UNCHANGED <<fpBinds, fpNotices, fpResult>>
    /\ UNCHANGED <<engineVars, subVars, histVars, signals, loopVars, upd>>
    /\ UNCHANGED <<statVars, call>>

\* Every bind error taken for a port in use.
should_retry_on_any_error(outcome) == TRUE

\* e.source() downcast to std::io::Error of kind AddrInUse, false when the
\* source is no io error.
should_retry(outcome) == outcome = "AddrInUse"

\* A retry that steps over a port.
NextAttemptsSkipsPort(attempts) == attempts + 2

\* attempts += 1
NextAttempts(attempts) == attempts + 1

\* One turn of the loop: the port is computed and bound, and the result is
\* returned unless the bind failed on a port in use with retries left.
find_port_attempt ==
    /\ fpPc = "loop"
    /\ IF Overflows(fpArgs.port, fpAttempts) /\ fpArgs.checked
       THEN /\ fpPc' = "panicked"
            /\ UNCHANGED <<fpAttempts, fpBinds, fpNotices, fpResult>>
       ELSE \E outcome \in BindOutcomes :
              LET current_port == WrappingAdd(fpArgs.port, fpAttempts)
                  retry == /\ outcome # "Ok"
                           /\ fpArgs.allow_retry
                           /\ fpAttempts < fpArgs.max_attempts - 1
                           /\ should_retry(outcome)
              IN
              /\ fpBinds' = Append(fpBinds, [port |-> current_port, outcome |-> outcome])
              /\ IF retry
                 THEN IF Overflows(current_port, 1) /\ fpArgs.checked
                      THEN /\ fpPc' = "panicked"
                           /\ UNCHANGED <<fpAttempts, fpNotices, fpResult>>
                      ELSE /\ fpNotices' = Append(fpNotices,
                                               <<current_port, WrappingAdd(current_port, 1)>>)
                           /\ fpAttempts' = NextAttempts(fpAttempts)
                           /\ UNCHANGED <<fpPc, fpResult>>
                 ELSE /\ fpPc' = "returned"
                      /\ fpResult' = [ok |-> outcome = "Ok", port |-> current_port,
                                      kind |-> outcome]
                      /\ UNCHANGED <<fpAttempts, fpNotices>>
    /\ UNCHANGED fpArgs
    /\ UNCHANGED <<engineVars, subVars, histVars, signals, loopVars, upd>>
    /\ UNCHANGED <<statVars, call>>

\* ------------------------------------- the statistics loop (next-dev)
\* start_server reaches stats_future: let mut progress_counter = 0.
stats_start(profile) ==
    /\ stPc = "idle"
    /\ stPc' = "await"
    /\ stProfile' = profile
    /\ progress_counter' = 0
    /\ UNCHANGED <<stHistory, stTasks, stExpired>>
    /\ UNCHANGED <<engineVars, subVars, histVars, signals, loopVars, upd>>
    /\ UNCHANGED <<portVars, call>>

\* The engine starts or finishes a task while the loop awaits.
TaskChange ==
    /\ stPc = "await"
    /\ \E n \in {stTasks - 1, stTasks + 1} \cap (0..MaxTasks) : stTasks' = n
    /\ UNCHANGED <<stPc, stProfile, progress_counter, stHistory, stExpired>>
    /\ UNCHANGED <<engineVars, subVars, histVars, signals, loopVars, upd>>
    /\ UNCHANGED <<portVars, call>>

\* A counter that stays where it is on an empty window.
ProgressAfterEmptyStuck(counter) == counter

\* progress_counter += 1
ProgressAfterEmpty(counter) == counter + 1

\* One turn of the loop: the awaited update_future resolves, with an update
\* or with none, and the counter is reset or stepped.
stats_turn ==
    /\ stPc = "await"
    /\ Len(stHistory) < MaxTurns
    /\ \E got \in {"update", "empty"} :
          /\ stHistory' = Append(stHistory, got)
          /\ progress_counter' = IF got = "update" THEN 0
                                  ELSE ProgressAfterEmpty(progress_counter)
    /\ stExpired' = FALSE
    /\ UNCHANGED <<stPc, stProfile, stTasks>>
    /\ UNCHANGED <<engineVars, subVars, histVars, signals, loopVars, upd>>
    /\ UNCHANGED <<portVars, call>>

\* An exit on every expired timeout, tasks in progress or not.
ExitsOnTimeoutAlways(in_progress_count) == TRUE

\* if tt.get_in_progress_count() == 0 { std::process::exit(0) }
ExitsOnTimeout(in_progress_count) == in_progress_count = 0

\* profile_timeout of a build with the profile feature: the timeout of
\* PROFILE_EXIT_TIMEOUT on the pinned future expires before the future
\* resolves; the process exits or the same future is awaited again.
profile_timeout_expires ==
    /\ stPc = "await"
    /\ stProfile
    /\ IF ExitsOnTimeout(stTasks)
       THEN stPc' = "exited" /\ UNCHANGED stExpired
       ELSE stExpired' = TRUE /\ UNCHANGED stPc
    /\ UNCHANGED <<stProfile, progress_counter, stHistory, stTasks>>
    /\ UNCHANGED <<engineVars, subVars, histVars, signals, loopVars, upd>>
    /\ UNCHANGED <<portVars, call>>

\* ------------------------------------------------ the stateless functions
None == <<>>

Endpoints == {"e1", "e2"}

Pathnames == {"/", "/api/hello"}

\* turbopack's Route, a variant and its endpoints.
Routes ==
    {<<"Page", h, d>> : h \in Endpoints, d \in Endpoints}
        \cup {<<"PageApi", e>> : e \in Endpoints}
        \cup {<<"AppPage", h, r>> : h \in Endpoints, r \in Endpoints}
        \cup {<<"AppRoute", e>> : e \in Endpoints}
        \cup {<<"Conflict">>}

\* An endpoint lost in the conversion.
convert_endpoint_dropped(endpoint) == None

\* Some(External::new(ExternalEndpoint(VcArc::new(turbo_tasks, endpoint))))
convert_endpoint(endpoint) == <<[external |-> endpoint]>>

\* #[derive(Default)] of NapiRoute
DefaultNapiRoute ==
    [pathname |-> "", type |-> "", endpoint |-> None, html_endpoint |-> None,
     rsc_endpoint |-> None, data_endpoint |-> None]

\* NapiRoute::from_route
from_route(pathname, value) ==
    CASE value[1] = "Page" ->
           [DefaultNapiRoute EXCEPT !.pathname = pathname, !.type = "page",
                                    !.html_endpoint = convert_endpoint(value[2]),
                                    !.data_endpoint = convert_endpoint(value[3])]
      [] value[1] = "PageApi" ->
           [DefaultNapiRoute EXCEPT !.pathname = pathname, !.type = "page-api",
                                    !.endpoint = convert_endpoint(value[2])]
      [] value[1] = "AppPage" ->
           [DefaultNapiRoute EXCEPT !.pathname = pathname, !.type = "app-page",
                                    !.html_endpoint = convert_endpoint(value[2]),
                                    !.rsc_endpoint = convert_endpoint(value[3])]
      [] value[1] = "AppRoute" ->
           [DefaultNapiRoute EXCEPT !.pathname = pathname, !.type = "app-route",
                                    !.endpoint = convert_endpoint(value[2])]
      [] value[1] = "Conflict" ->
           [DefaultNapiRoute EXCEPT !.pathname = pathname, !.type = "conflict"]

\* A route of the entrypoints is converted for the host.
napi_route_from_route ==
    /\ \E pathname \in Pathnames, value \in Routes :
          call' = [fn |-> "from_route", pathname |-> pathname, value |-> value,
                   ret |-> from_route(pathname, value)]
    /\ UNCHANGED <<engineVars, subVars, histVars, signals, loopVars, upd>>
    /\ UNCHANGED <<portVars, statVars>>

\* The options a host can hand over: with and without a distDir, with an
\* environment of up to two variables, a name repeated or not.
EnvVars == {[name |-> n, value |-> v] : n \in {"A", "B"}, v \in {"1", "2"}}

NapiOptionsHanded ==
    {[NapiProjectOptions(c) EXCEPT !.dist_dir = d, !.env = e] :
        c \in Configs, d \in {None, <<"out">>},
        e \in {<<>>} \cup {<<x>> : x \in EnvVars}
                     \cup {<<x, y>> : x \in EnvVars, y \in EnvVars}}

\* options.into() of project_new and project_update.
options_into ==
    /\ \E val \in NapiOptionsHanded :
          call' = [fn |-> "into", val |-> val, ret |-> ProjectOptions(val)]
    /\ UNCHANGED <<engineVars, subVars, histVars, signals, loopVars, upd>>
    /\ UNCHANGED <<portVars, statVars>>

\* ClientContextType, NextMode, and what assert_can_resolve_react_refresh
\* gives: a request, none, or an error of the engine.
ClientContextTypes == {"App", "Pages", "Fallback", "Other"}

NextModes == {"DevServer", "Development", "Build"}

ReactRefresh == {"Request", "NotResolved", "Error"}

ProcessEnvEntry == "ProcessEnvAsset"

ReactRefreshEntry == "react-refresh"

BootstrapEntries ==
    {"next/dist/client/app-next-dev-turbopack.js",
     "./build/client/app-bootstrap.ts", "./build/client/bootstrap.ts"}

\* The bootstrap pushed before React Refresh.
DevelopmentEntriesBootstrapFirst(ty, refresh) ==
    (IF ty = "App" THEN <<"next/dist/client/app-next-dev-turbopack.js">> ELSE <<>>)
        \o (IF refresh = "Request" THEN <<ReactRefreshEntry>> ELSE <<>>)

\* NextMode::Development: React Refresh when it resolves, then the
\* bootstrap of an App context.
DevelopmentEntries(ty, refresh) ==
    (IF refresh = "Request" THEN <<ReactRefreshEntry>> ELSE <<>>)
        \o (IF ty = "App" THEN <<"next/dist/client/app-next-dev-turbopack.js">> ELSE <<>>)

\* get_client_runtime_entries
get_client_runtime_entries(ty, mode, refresh) ==
    LET process_env == IF ty \in {"App", "Pages"} THEN <<ProcessEnvEntry>> ELSE <<>>
    IN  CASE mode = "DevServer" ->
               IF refresh = "Error" THEN [ok |-> FALSE, entries |-> <<>>]
               ELSE [ok |-> TRUE,
                     entries |-> process_env \o
                        (IF refresh = "Request" THEN <<ReactRefreshEntry>> ELSE <<>>)]
          [] mode = "Development" ->
               IF refresh = "Error" THEN [ok |-> FALSE, entries |-> <<>>]
               ELSE [ok |-> TRUE,
                     entries |-> process_env \o DevelopmentEntries(ty, refresh)]
          [] mode = "Build" ->
               [ok |-> TRUE,
                entries |-> process_env \o
                   (CASE ty = "App"   -> <<"./build/client/app-bootstrap.ts">>
                      [] ty = "Pages" -> <<"./build/client/bootstrap.ts">>
                      [] OTHER        -> <<>>)]

\* The runtime entries of a client context are asked for.
client_runtime_entries ==
    /\ \E ty \in ClientContextTypes, mode \in NextModes, refresh \in ReactRefresh :
          call' = [fn |-> "get_client_runtime_entries", ty |-> ty, mode |-> mode,
                   refresh |-> refresh,
                   ret |-> get_client_runtime_entries(ty, mode, refresh)]
    /\ UNCHANGED <<engineVars, subVars, histVars, signals, loopVars, upd>>
    /\ UNCHANGED <<portVars, statVars>>

\* ------------------------------------------------------------------- Next
\* One subscription of any kind on a project whose sources and options change.
Next ==
    \/ \E id \in Ids : SourceChange(id)
    \/ \E c \in Configs : project_update(c)
    \/ project_entrypoints_subscribe(1)
    \/ project_hmr_identifiers_subscribe(1)
    \/ \E id \in Ids : project_hmr_events(1, id)
    \/ entrypoints_compute(1)
    \/ hmr_identifiers_compute(1)
    \/ hmr_compute(1)
    \/ subscribe_call(1)

Spec == Init /\ [][Next]_vars

\* Two project_hmr_events calls for one identifier whose source changes.
NextSessions ==
    \/ SourceChange(1)
    \/ \E s \in Subs : project_hmr_events(s, 1)
    \/ \E s \in Subs : hmr_compute(s)
    \/ \E s \in Subs : subscribe_call(s)

SpecSessions == Init /\ [][NextSessions]_vars

\* A project with one entrypoints subscription and the update-info loop,
\* let go of by the host at some point.
NextTeardown ==
    \/ SourceChange(1)
    \/ project_entrypoints_subscribe(1)
    \/ entrypoints_compute(1)
    \/ subscribe_call(1)
    \/ subscribe_cancelled(1)
    \/ project_update_info_subscribe
    \/ update_info_wait
    \/ update_info_call
    \/ project_drop

SpecTeardown == Init /\ [][NextTeardown]_vars

\* Two subscriptions and the update-info loop on a project whose options
\* change.
NextLocal ==
    \/ \E c \in Configs : project_update(c)
    \/ \E s \in Subs : project_entrypoints_subscribe(s)
    \/ \E s \in Subs : project_hmr_identifiers_subscribe(s)
    \/ \E s \in Subs : entrypoints_compute(s)
    \/ \E s \in Subs : hmr_identifiers_compute(s)
    \/ \E s \in Subs : subscribe_call(s)
    \/ project_update_info_subscribe
    \/ update_info_wait
    \/ update_info_call

SpecLocal == Init /\ [][NextLocal]_vars

\* Two callers of project_update on a project with an entrypoints and an
\* identifiers subscription.
NextUpdate ==
    \/ \E u \in Callers, c \in Configs : project_update_call(u, c)
    \/ \E u \in Callers : project_update_run(u)
    \/ project_entrypoints_subscribe(1)
    \/ project_hmr_identifiers_subscribe(2)
    \/ entrypoints_compute(1)
    \/ hmr_identifiers_compute(2)
    \/ \E s \in Subs : subscribe_call(s)

SpecUpdate == Init /\ [][NextUpdate]_vars

\* One caller of project_update and the two subscriptions, every root task
\* that is due being run and every result being handed over in the end: the
\* engine's workers and the runtime leave no ready task waiting for ever.
NextUpdateOnce ==
    \/ \E c \in Configs : project_update_call(1, c)
    \/ project_update_run(1)
    \/ project_entrypoints_subscribe(1)
    \/ project_hmr_identifiers_subscribe(2)
    \/ entrypoints_compute(1)
    \/ hmr_identifiers_compute(2)
    \/ \E s \in Subs : subscribe_call(s)

\* One find_port call of the dev server builder, on any of the starting
\* ports, with the ports it tries bound or refused in any way.
NextPort ==
    \/ \E port \in StartPorts, max_attempts \in MaxAttempts,
          allow_retry \in BOOLEAN, checked \in BOOLEAN :
          find_port_call(port, max_attempts, allow_retry, checked)
    \/ find_port_attempt

SpecPort == Init /\ [][NextPort]_vars

\* The statistics loop of start_server, in a build with or without the
\* profile feature, while the engine's tasks come and go.
NextStats ==
    \/ \E profile \in BOOLEAN : stats_start(profile)
    \/ TaskChange
    \/ stats_turn
    \/ profile_timeout_expires

SpecStats == Init /\ [][NextStats]_vars

\* The functions that keep no state, called on any of their arguments.
NextCalls ==
    \/ napi_route_from_route
    \/ options_into
    \/ client_runtime_entries

SpecCalls == Init /\ [][NextCalls]_vars

SpecUpdateFair ==
    /\ Init /\ [][NextUpdateOnce]_vars
    /\ WF_vars(entrypoints_compute(1))
    /\ WF_vars(hmr_identifiers_compute(2))
    /\ \A s \in Subs : WF_vars(subscribe_call(s))

\* ------------------------------------------------------------- properties
Hmr(s) == kind[s] = "hmr"

\* The step is a compute step of subscription s.
ComputeStep(s) == computes'[s] = computes[s] + 1

\* The step hands the result of s to its sink.
CallStep(s) == pc[s] = "call" /\ pc'[s] # "call"

\* The sink accepted what the step handed to it.
Accepted(s) == delivered'[s] + errReports'[s] = delivered[s] + errReports[s] + 1

IsUpdate(s, k) == result[s].ok /\ result[s].update.kind = k

\* C1: a cycle whose update is Update::None leaves the session's version
\* state holding what it held (state.set is not called, so nothing that
\* reads the state is invalidated) and its delivery hands the sink an
\* issues-only instruction for the identifier, itself leaving every version
\* state alone; so a run of such cycles, however it ends, leaves the state
\* at the version it was created with.
C1_NoneLeavesVersionState ==
    [][\A s \in Subs : Hmr(s) =>
          /\ (ComputeStep(s) /\ result'[s].ok /\ result'[s].update.kind = "None")
                => /\ versionState'[StateKey(s)] = VersionStateGet(StateKey(s))
                   /\ ~dirty'[s]
          /\ (CallStep(s) /\ IsUpdate(s, "None"))
                => /\ versionState' = versionState
                   /\ Accepted(s) => /\ sink'[s].type = "issues"
                                      /\ sink'[s].path = ident[s]
                                      /\ sink'[s].instruction = NoDelta]_vars

C1_Witness ==
    \E s \in Subs :
        /\ Hmr(s) /\ pc[s] = "wait" /\ computes[s] >= 2
        /\ IsUpdate(s, "None") /\ sink[s].type = "issues"
        /\ versionState[StateKey(s)] = readFrom[s]

\* C2: when the compute step of a cycle returns Update::Total{to} the
\* session's version state holds exactly `to`, and the envelope delivered
\* for the cycle is a restart instruction for the subscribed identifier.
C2_TotalAdvancesAndRestarts ==
    \A s \in Subs : (Hmr(s) /\ IsUpdate(s, "Total")) =>
        /\ result[s].update.to \in Versions
        /\ pc[s] = "call" => versionState[StateKey(s)] = result[s].update.to
        /\ pc[s] = "wait" => /\ sink[s].type = "restart"
                             /\ sink[s].path = ident[s]

C2_Witness ==
    \E s \in Subs :
        /\ Hmr(s) /\ pc[s] = "wait" /\ IsUpdate(s, "Total")
        /\ sink[s].type = "restart"
        /\ versionState[StateKey(s)] = result[s].update.to
        /\ readFrom[s] # result[s].update.to

\* C3: when the compute step of a cycle returns Update::Partial{to, delta}
\* the session's version state holds exactly `to`, and the envelope
\* delivered for the cycle is a partial instruction carrying the delta the
\* engine computed from the version it was handed, unmodified.
C3_PartialAdvancesAndRelays ==
    \A s \in Subs : (Hmr(s) /\ IsUpdate(s, "Partial")) =>
        /\ result[s].update.instruction = <<readFrom[s], result[s].update.to>>
        /\ pc[s] = "call" => versionState[StateKey(s)] = result[s].update.to
        /\ pc[s] = "wait" => /\ sink[s].type = "partial"
                             /\ sink[s].path = ident[s]
                             /\ sink[s].instruction = result[s].update.instruction

C3_Witness ==
    \E s \in Subs :
        /\ Hmr(s) /\ pc[s] = "wait" /\ IsUpdate(s, "Partial")
        /\ sink[s].type = "partial"
        /\ sink[s].instruction = <<readFrom[s], versionState[StateKey(s)]>>
        /\ readFrom[s] # versionState[StateKey(s)]

\* C4: two project_hmr_events calls hold different sessions, and a compute
\* step of one of them, whatever update it processes and however the two
\* are interleaved, leaves the version state of the other as it was.
C4_SessionsAreIsolated ==
    [][\A s \in Subs, t \in Subs : (s # t /\ Hmr(s)' /\ Hmr(t)') =>
          /\ session'[s] # session'[t]
          /\ ComputeStep(s) =>
                versionState'[StateKey(t)] = versionState[StateKey(t)]]_vars

C4_Witness ==
    /\ Hmr(1) /\ Hmr(2) /\ ident[1] = ident[2]
    /\ pc[1] = "wait" /\ result[1].ok /\ result[1].update.kind # "None"
    /\ computes[2] >= 1
    /\ versionState[StateKey(1)] = result[1].update.to
    /\ versionState[StateKey(2)] # versionState[StateKey(1)]
    /\ versionState[StateKey(2)] = readFrom[2]

\* C5: the version state holds the `to` of a Total or Partial update only
\* once the envelope carrying that update was accepted by the session's
\* sink: when the delivery of a cycle is over, a state advanced to the `to`
\* of the cycle's update means the sink accepted the envelope.
C5_StateAdvancedOnlyAfterDelivery ==
    \A s \in Subs :
        (/\ Hmr(s) /\ result[s].ok /\ result[s].update.kind # "None"
         /\ pc[s] # "call"
         /\ versionState[StateKey(s)] = result[s].update.to)
        => (pc[s] = "wait" /\ sink[s].type \in {"restart", "partial"})

\* C6: the delta of a Partial update is based on the version the session's
\* state held when the cycle began; a version the content cannot diff
\* against yields a Total update, delivered as a restart instruction, and
\* the subscription goes on.
C6_PartialOnHeldBaseElseRestart ==
    [][\A s \in Subs : Hmr(s) =>
          /\ (ComputeStep(s) /\ result'[s].ok) =>
                /\ result'[s].update.kind = "Partial" =>
                      result'[s].update.instruction[1] = VersionStateGet(StateKey(s))
                /\ stale'[s] => result'[s].update.kind = "Total"
          /\ (CallStep(s) /\ stale[s] /\ result[s].ok /\ Accepted(s)) =>
                /\ sink'[s].type = "restart"
                /\ pc'[s] = "wait"
                /\ stopReason'[s] = "none"]_vars

C6_Witness ==
    \E s \in Subs :
        /\ Hmr(s) /\ pc[s] = "wait" /\ stale[s] /\ result[s].ok
        /\ sink[s].type = "restart" /\ computes[s] >= 2

\* C7: after a cycle classified Total{to}, if the resource is still at `to`
\* when the session's next cycle computes, that cycle classifies
\* Update::None and leaves the version state at `to`.
C7_TotalThenNone ==
    [][\A s \in Subs :
          (/\ Hmr(s) /\ ComputeStep(s) /\ IsUpdate(s, "Total")
           /\ resVersion[ident[s]] = result[s].update.to
           /\ result'[s].ok)
          => /\ result'[s].update.kind = "None"
             /\ versionState'[StateKey(s)] = result[s].update.to]_vars

C7_Witness ==
    \E s \in Subs :
        /\ Hmr(s) /\ pc[s] = "call" /\ sink[s].type = "restart"
        /\ IsUpdate(s, "None")
        /\ versionState[StateKey(s)] = resVersion[ident[s]]

\* C8: every cycle of one subscription reads the state the cycle before
\* left: the version handed to hmr_update in cycle N+1 is the version
\* state.set wrote in cycle N, or the one cycle N read when it wrote none.
C8_NextCycleReadsWhatWasSet ==
    [][\A s \in Subs : (Hmr(s) /\ ComputeStep(s) /\ computes[s] >= 1) =>
          readFrom'[s] = IF result[s].update.kind = "None"
                         THEN readFrom[s] ELSE result[s].update.to]_vars

C8_Witness ==
    \E s \in Subs :
        /\ Hmr(s) /\ pc[s] = "call" /\ sink[s].type = "restart"
        /\ IsUpdate(s, "Partial")
        /\ result[s].update.instruction[1] = readFrom[s]

\* C9: an engine error in a compute step of any subscription is the step's
\* result, is handed to the sink as one error (reported once when the sink
\* accepts it) and stops the subscription: no compute step and no delivery
\* follows, and no error is reported twice.
C9_ComputeFailureIsTerminal ==
    [][\A s \in Subs :
          /\ engineFailed'[s] => (~result'[s].ok /\ pc'[s] \in {"call", "stopped"})
          /\ errReports'[s] <= 1
          /\ (CallStep(s) /\ ~result[s].ok) =>
                /\ pc'[s] = "stopped"
                /\ Accepted(s) => (sink'[s].type = "error" /\ errReports'[s] = 1)
          /\ (pc[s] = "stopped" /\ engineFailed[s]) =>
                /\ pc'[s] = "stopped"
                /\ computes'[s] = computes[s]
                /\ delivered'[s] = delivered[s]
                /\ errReports'[s] = errReports[s]
                /\ sink'[s] = sink[s]]_vars

C9_Witness ==
    \E s \in Subs :
        /\ pc[s] = "stopped" /\ stopReason[s] = "error" /\ engineFailed[s]
        /\ errReports[s] = 1 /\ sink[s].type = "error"
        /\ computes[s] >= 2 /\ dirty[s] /\ Cycles < MaxCycles

\* C10: once the sink of a subscription reports on delivery k that it is
\* closed, the subscription has stopped for good: k compute steps were run
\* and k-1 results accepted, and whatever changes afterwards no compute step
\* and no delivery follows.
C10_DetachIsPermanent ==
    [][\A s \in Subs :
          /\ stopReason'[s] = "detached" =>
                /\ pc'[s] = "stopped"
                /\ computes'[s] = delivered'[s] + errReports'[s] + 1
          /\ stopReason[s] = "detached" =>
                /\ stopReason'[s] = "detached"
                /\ computes'[s] = computes[s]
                /\ delivered'[s] = delivered[s]
                /\ sink'[s] = sink[s]]_vars

C10_Witness ==
    \E s \in Subs :
        /\ pc[s] = "stopped" /\ stopReason[s] = "detached"
        /\ computes[s] = 3 /\ delivered[s] = 2
        /\ dirty[s] /\ Cycles < MaxCycles

\* C11: within one subscription a compute step begins only when the result
\* of every earlier cycle was handed to the sink and accepted, never while a
\* result is on its way, and the k-th envelope the sink accepts is the
\* result of the k-th compute step.
C11_DeliveryBeforeNextCompute ==
    [][\A s \in Subs :
          /\ ComputeStep(s) => /\ pc[s] = "wait"
                               /\ delivered[s] = computes[s]
                               /\ errReports[s] = 0
          /\ (CallStep(s) /\ Accepted(s)) =>
                /\ delivered'[s] + errReports'[s] = computes[s]
                /\ sink'[s] = Envelope(s)]_vars

C11_Witness ==
    \E s \in Subs :
        /\ Hmr(s) /\ pc[s] = "call" /\ computes[s] = 3 /\ delivered[s] = 2
        /\ sink[s].type = "partial" /\ IsUpdate(s, "None")

\* C12: a compute step runs only for a subscription that is due, and a
\* subscription is due once when it is made and once more for every change
\* signal that reaches it while it waits: the compute steps it ran, plus
\* the one it is due for, are one more than the change signals it received.
C12_NoComputeWithoutSignal ==
    \A s \in Subs :
        /\ computes[s] <= 1 + signals[s]
        /\ Active(s) =>
              computes[s] + (IF dirty[s] THEN 1 ELSE 0) = 1 + signals[s]

C12_Witness ==
    \E s \in Subs :
        /\ kind[s] = "identifiers" /\ pc[s] = "wait" /\ ~dirty[s]
        /\ computes[s] = 3 /\ signals[s] = 2 /\ delivered[s] = 3

\* C13: once the project is let go of, a subscription or the update-info
\* loop that is at a suspension point goes on to no further cycle: from its
\* wait it can only stop.
C13_TeardownStopsEverything ==
    [][dropped =>
          /\ \A s \in Subs : pc[s] = "wait" => pc'[s] \in {"wait", "stopped"}
          /\ aggPc = "wait" => aggPc' \in {"wait", "stopped"}]_vars

\* The subscription t can take its next step: compute when it is due, hand
\* over when it has a result.
StillRuns(t) ==
    /\ (pc[t] = "wait" /\ dirty[t] /\ Cycles < MaxCycles) =>
          ENABLED (entrypoints_compute(t) \/ hmr_identifiers_compute(t))
    /\ pc[t] = "call" => ENABLED subscribe_call(t)

\* The step stops subscription s.
StopStep(s) == pc[s] # "stopped" /\ pc'[s] = "stopped"

\* C14: the step in which a subscription stops, after a failed compute step
\* or on a closed sink, changes nothing of the container, of the other
\* subscriptions or of the update-info loop; the step in which the loop
\* stops on a failed delivery changes nothing of the container or of any
\* subscription; and whatever has stopped, every other subscription and
\* the loop can take their next step.
C14_FailuresAreLocal ==
    /\ [](\A t \in Subs :
             /\ StillRuns(t)
             /\ (aggPc = "wait" /\ aggWindows < MaxWindows) => ENABLED update_info_wait
             /\ aggPc = "call" => ENABLED update_info_call)
    /\ [][/\ \A s \in Subs : StopStep(s) =>
                /\ \A t \in Subs \ {s} :
                      /\ pc'[t] = pc[t] /\ dirty'[t] = dirty[t]
                      /\ result'[t] = result[t] /\ sink'[t] = sink[t]
                /\ config' = config /\ ~dropped'
                /\ aggPc' = aggPc
          /\ (aggPc # "stopped" /\ aggPc' = "stopped") =>
                /\ pc' = pc /\ dirty' = dirty /\ result' = result /\ sink' = sink
                /\ config' = config /\ ~dropped']_vars

C14_Witness ==
    /\ pc[1] = "stopped" /\ stopReason[1] = "error" /\ computes[1] = 1
    /\ aggPc = "stopped"
    /\ kind[2] = "entrypoints" /\ pc[2] = "call" /\ computes[2] = 3
    /\ delivered[2] = 2

\* The options the container has held so far: those of project_new and
\* those of every project_update call that went through.
Held ==
    {ProjectOptions(NapiProjectOptions(0))}
        \cup {upd[u].options : u \in {v \in Callers : upd[v].pc = "done" /\ ~upd[v].rejected}}

\* The step runs the once task of caller u's project_update.
RunStep(u) == upd[u].pc = "run" /\ upd'[u].pc = "done"

\* C15: the snapshot an entrypoints compute step returns is the options the
\* container holds at that step, which are options it was created with or
\* handed whole by one project_update call, and the snapshot the sink
\* accepts is that snapshot: never fields of two configurations.
C15_SnapshotOfOneConfiguration ==
    [][\A s \in Subs : kind[s] = "entrypoints" =>
          /\ (ComputeStep(s) /\ result'[s].ok) =>
                /\ result'[s].value = config
                /\ result'[s].value \in Held
          /\ (CallStep(s) /\ Accepted(s) /\ result[s].ok) =>
                /\ sink'[s].value = result[s].value
                /\ sink'[s].value \in Held]_vars

C15_Witness ==
    /\ kind[1] = "entrypoints" /\ pc[1] = "wait" /\ delivered[1] = 2
    /\ upd[1].pc = "done" /\ upd[1].ret = "ok" /\ upd[2].pc = "run"
    /\ sink[1].value = upd[1].options
    /\ sink[1].value # ProjectOptions(NapiProjectOptions(0))

\* C16: the once tasks of two project_update calls in flight run one at a
\* time: a step runs the task of one call and leaves the other call where
\* it was, the options after it are the whole options of that call, and
\* once both went through the container holds the options of one of the
\* two; a subscription can take its next step whatever calls are in flight.
C16_UpdatesOneAtATime ==
    /\ [](\A t \in Subs : StillRuns(t))
    /\ []((\A u \in Callers : upd[u].ret = "ok") =>
             config \in {upd[u].options : u \in Callers})
    /\ [][\A u \in Callers : RunStep(u) =>
              /\ \A v \in Callers \ {u} : upd'[v] = upd[v]
              /\ ~upd'[u].rejected => config' = upd[u].options]_vars

C16_Witness ==
    /\ \A u \in Callers : upd[u].ret = "ok"
    /\ upd[1].options # upd[2].options
    /\ config = upd[1].options
    /\ pc[1] = "call" /\ result[1].ok /\ result[1].value = config
    /\ sink[1].value = upd[2].options

\* C17: the step in which a project_update call goes through replaces the
\* options, marks every live subscription due and leaves each of them the
\* subscription it was; and every live subscription comes to rest, unless
\* it stops on an error or a closed sink, with a delivered snapshot of the
\* options the container holds.
C17_UpdateReachesSubscriptions ==
    /\ [][\A u \in Callers : (RunStep(u) /\ upd'[u].ret = "ok") =>
              /\ config' = upd[u].options
              /\ \A s \in Subs : Active(s) =>
                    /\ dirty'[s]
                    /\ pc'[s] = pc[s] /\ kind'[s] = kind[s]]_vars
    /\ \A s \in Subs :
          Active(s) ~> \/ pc[s] = "stopped"
                       \/ /\ pc[s] = "wait" /\ ~dirty[s]
                          /\ result[s].value = config /\ sink[s].value = config

C17_Witness ==
    /\ upd[1].ret = "ok" /\ config.watch
    /\ \A s \in Subs :
          /\ pc[s] = "wait" /\ ~dirty[s] /\ computes[s] = 2 /\ delivered[s] = 2
          /\ sink[s].value = config

\* C18: a project_update call whose options are rejected returns an error,
\* and the step in which they are rejected leaves the container's options,
\* and with them what every view is computed from, exactly as they were:
\* no subscription is marked due.
C18_RejectedUpdateChangesNothing ==
    /\ [](\A u \in Callers : (upd[u].pc = "done" /\ upd[u].rejected) =>
                                upd[u].ret = "err")
    /\ [][\A u \in Callers : (RunStep(u) /\ upd'[u].rejected) =>
              /\ config' = config
              /\ dirty' = dirty
              /\ config' \in Held']_vars

C18_Witness ==
    /\ upd[1].ret = "err" /\ upd[1].options # config /\ upd[2].pc = "idle"
    /\ pc[1] = "wait" /\ ~dirty[1] /\ computes[1] = 1 /\ sink[1].value = config

\* C19: the k-th bind attempt of find_port (k = 0, 1, ...) is made on
\* starting_port + k, no more than max_attempts attempts are made, and the
\* call ends by returning the listener or the bind error of the last port
\* it tried, never in a panic.
C19_ConsecutivePortsBoundedAttempts ==
    /\ \A k \in 1..Len(fpBinds) : fpBinds[k].port = fpArgs.port + (k - 1)
    /\ Len(fpBinds) <= fpArgs.max_attempts
    /\ fpPc # "panicked"
    /\ fpPc = "returned" =>
          /\ fpResult.port = fpBinds[Len(fpBinds)].port
          /\ fpResult.kind = fpBinds[Len(fpBinds)].outcome
          /\ fpResult.ok = (fpResult.kind = "Ok")

\* C20: a bind attempt is followed by another only when allow_retry is set
\* and the attempt failed on a port in use; a bind that fails in any other
\* way, or with allow_retry unset, is the last: its error is what the call
\* returns, the port was tried once and nothing was printed for it.
C20_RetryOnlyOnAddrInUse ==
    /\ \A k \in 1..(Len(fpBinds) - 1) :
          fpArgs.allow_retry /\ fpBinds[k].outcome = "AddrInUse"
    /\ \A k \in 1..Len(fpBinds) :
          (/\ fpBinds[k].outcome # "Ok"
           /\ ~fpArgs.allow_retry \/ fpBinds[k].outcome # "AddrInUse") =>
             /\ k = Len(fpBinds)
             /\ fpPc = "returned"
             /\ fpResult = [ok |-> FALSE, port |-> fpBinds[k].port,
                            kind |-> fpBinds[k].outcome]
             /\ Len(fpNotices) = k - 1
             /\ \A j \in 1..Len(fpBinds) : fpBinds[j].port = fpBinds[k].port => j = k
    /\ ~fpArgs.allow_retry => (Len(fpBinds) <= 1 /\ fpNotices = <<>>)

C20_Witness ==
    /\ fpPc = "returned" /\ fpArgs.allow_retry
    /\ fpArgs.max_attempts = BuildMaxAttempts
    /\ Len(fpBinds) = 3 /\ Len(fpNotices) = 2
    /\ fpBinds[3].outcome = "PermissionDenied"
    /\ fpResult.kind = "PermissionDenied"

\* Every bind attempt made so far failed on a port in use.
AllInUse == \A k \in 1..Len(fpBinds) : fpBinds[k].outcome = "AddrInUse"

C22_BindsFirstFreePort ==
    LET P == fpArgs.port
        k == Len(fpBinds) - 1
    IN  /\ (/\ fpArgs.allow_retry /\ fpPc = "returned" /\ fpResult.ok
             /\ P + k < U16Size) =>
              /\ k < fpArgs.max_attempts
              /\ \A i \in 1..k : fpBinds[i] = [port |-> P + i - 1, outcome |-> "AddrInUse"]
              /\ fpResult.port = P + k
              /\ Len(fpNotices) = k
              /\ \A i \in 1..k : fpNotices[i] = <<P + i - 1, P + i>>
        /\ (/\ fpArgs.allow_retry /\ fpPc = "loop" /\ AllInUse
             /\ P + Len(fpBinds) < U16Size) =>
              /\ Len(fpBinds) < fpArgs.max_attempts
              /\ fpAttempts = Len(fpBinds)
              /\ Len(fpNotices) = Len(fpBinds)

C22_Witness ==
    /\ fpPc = "returned" /\ fpArgs.allow_retry /\ fpArgs.max_attempts = 3
    /\ Len(fpBinds) = 3 /\ fpBinds[1].outcome = "AddrInUse"
    /\ fpBinds[2].outcome = "AddrInUse"
    /\ fpResult = [ok |-> TRUE, port |-> fpArgs.port + 2, kind |-> "Ok"]
    /\ fpNotices = <<<<fpArgs.port, fpArgs.port + 1>>,
                     <<fpArgs.port + 1, fpArgs.port + 2>>>>

\* C28: called with the max_attempts of build, find_port computes no port
\* above 65535: neither port + attempts nor the current_port + 1 of a
\* notice overflows, so no turn panics and no port or notice wraps.
C28_PortsStayInU16 ==
    fpArgs.max_attempts = BuildMaxAttempts =>
        /\ fpPc # "panicked"
        /\ fpArgs.port + fpAttempts < U16Size
        /\ \A k \in 1..Len(fpBinds) : fpBinds[k].port = fpArgs.port + (k - 1)
        /\ \A k \in 1..Len(fpNotices) : fpNotices[k][2] = fpNotices[k][1] + 1

\* C23: the update-info loop hands its sink one summary for every window
\* it waited for, window by window; it goes on to the next window after
\* every Ok status, it stops in the step in which func.call returns another
\* status and only there, and once stopped it waits for no window and
\* hands over nothing.
C23_LoopEndsOnFailedDeliveryOnly ==
    /\ [](/\ aggCalls = aggWindows - (IF aggPc = "call" THEN 1 ELSE 0)
          /\ (aggPc = "stopped") = (aggStatus \notin {"none", "Ok"})
          /\ (aggPc = "wait" /\ aggWindows < MaxWindows) => ENABLED update_info_wait
          /\ aggPc = "call" => ENABLED update_info_call)
    /\ [][/\ aggPc = "stopped" =>
                (aggPc' = "stopped" /\ aggWindows' = aggWindows /\ aggCalls' = aggCalls)
          /\ (aggPc # "stopped" /\ aggPc' = "stopped") =>
                (aggPc = "call" /\ aggCalls' = aggCalls + 1 /\ aggStatus' # "Ok")
          /\ aggWindows' # aggWindows =>
                (aggPc = "wait" /\ aggWindows' = aggWindows + 1 /\ aggPc' = "call")
          /\ aggCalls' # aggCalls =>
                (aggPc = "call" /\ aggCalls' = aggCalls + 1)]_vars

C23_Witness ==
    /\ aggPc = "stopped" /\ aggStatus = "Closing"
    /\ aggWindows = MaxWindows /\ aggCalls = MaxWindows
    /\ dropped

\* C24: the process exits only in a step of profile_timeout of a profile
\* build, at the expiry of a timeout within which the awaited update did
\* not arrive and with no task in progress at that moment, and such an
\* expiry does exit; an expiry with tasks in progress leaves the loop
\* awaiting the same update; an update that arrives is returned to the
\* loop, which goes on; a build without the feature never exits.
C24_ProfileExitOnlyWhenIdle ==
    /\ [](stPc = "exited" => stProfile)
    /\ [][/\ (stPc # "exited" /\ stPc' = "exited") =>
                /\ stProfile /\ stPc = "await" /\ stTasks = 0
                /\ stHistory' = stHistory
          /\ (stExpired' /\ ~stExpired) =>
                /\ stTasks > 0 /\ stPc' = "await"
                /\ stHistory' = stHistory /\ progress_counter' = progress_counter
          /\ (stPc = "await" /\ stTasks' = stTasks /\ stHistory' = stHistory
                /\ stTasks = 0) => stPc' = "exited"
          /\ stHistory' # stHistory =>
                (stPc' = "await" /\ Len(stHistory') = Len(stHistory) + 1)]_vars

C24_Witness ==
    /\ stPc = "exited" /\ stProfile /\ stExpired /\ stTasks = 0
    /\ stHistory = <<"update">>

\* The windows at the end of the history that returned no update.
RECURSIVE TrailingEmpty(_)
TrailingEmpty(h) ==
    IF h = <<>> \/ h[Len(h)] = "update" THEN 0
    ELSE 1 + TrailingEmpty(SubSeq(h, 1, Len(h) - 1))

\* C29: progress_counter is the number of windows in a row that returned
\* no update since the last update or since the start: a turn that receives
\* an update sets it to 0, a turn that receives none adds one to it; and
\* the loop has no way out of its own: every turn leads to the next await,
\* and only the process exit of a profile build ends it.
C29_ProgressCounterCountsEmptyWindows ==
    /\ [](/\ progress_counter = TrailingEmpty(stHistory)
          /\ stPc = "exited" => stProfile
          /\ (stPc = "await" /\ Len(stHistory) < MaxTurns) => ENABLED stats_turn)
    /\ [][stHistory' # stHistory =>
              /\ stPc' = "await"
              /\ progress_counter' =
                    IF stHistory'[Len(stHistory')] = "update" THEN 0
                    ELSE progress_counter + 1]_vars

C29_Witness ==
    /\ stPc = "await" /\ ~stProfile
    /\ stHistory = <<"empty", "update", "empty", "empty">>
    /\ progress_counter = 2

\* C25: the NapiRoute made of a route has the pathname it was given, the
\* type tag of the route's variant and, wrapped for the host, the endpoints
\* of the variant in the fields of their names: page with html and data,
\* page-api with endpoint, app-page with html and rsc, app-route with
\* endpoint, conflict with none; every other endpoint field is empty.
C25_RouteVariantToTagAndEndpoints ==
    call.fn = "from_route" =>
        LET v == call.value
            r == call.ret
            Ext(e) == <<[external |-> e]>>
        IN  /\ r.pathname = call.pathname
            /\ v[1] = "Page" =>
                  r = [pathname |-> call.pathname, type |-> "page",
                       endpoint |-> None, html_endpoint |-> Ext(v[2]),
                       rsc_endpoint |-> None, data_endpoint |-> Ext(v[3])]
            /\ v[1] = "PageApi" =>
                  r = [pathname |-> call.pathname, type |-> "page-api",
                       endpoint |-> Ext(v[2]), html_endpoint |-> None,
                       rsc_endpoint |-> None, data_endpoint |-> None]
            /\ v[1] = "AppPage" =>
                  r = [pathname |-> call.pathname, type |-> "app-page",
                       endpoint |-> None, html_endpoint |-> Ext(v[2]),
                       rsc_endpoint |-> Ext(v[3]), data_endpoint |-> None]
            /\ v[1] = "AppRoute" =>
                  r = [pathname |-> call.pathname, type |-> "app-route",
                       endpoint |-> Ext(v[2]), html_endpoint |-> None,
                       rsc_endpoint |-> None, data_endpoint |-> None]
            /\ v[1] = "Conflict" =>
                  r = [pathname |-> call.pathname, type |-> "conflict",
                       endpoint |-> None, html_endpoint |-> None,
                       rsc_endpoint |-> None, data_endpoint |-> None]

C25_Witness ==
    /\ call.fn = "from_route" /\ call.value = <<"AppPage", "e1", "e2">>
    /\ call.ret.type = "app-page" /\ call.ret.pathname = "/api/hello"
    /\ call.ret.rsc_endpoint = <<[external |-> "e2"]>>
    /\ call.ret.data_endpoint = None

\* C26: the ProjectOptions made of the options handed over has every one
\* of their fields: root path, project path, output directory, watch flag,
\* both config blobs, server address, and an environment that maps every
\* name supplied, once, to the value supplied last for it.
C26_EveryOptionCarried ==
    call.fn = "into" =>
        LET val == call.val
            ret == call.ret
        IN  /\ ret.root_path = val.root_path
            /\ ret.project_path = val.project_path
            /\ ret.watch = val.watch
            /\ ret.next_config = val.next_config
            /\ ret.js_config = val.js_config
            /\ ret.server_addr = val.server_addr
            /\ DOMAIN ret.env = {val.env[i].name : i \in 1..Len(val.env)}
            /\ Len(val.env) > 0 =>
                  ret.env[val.env[Len(val.env)].name] = val.env[Len(val.env)].value
            /\ "dist_dir" \in DOMAIN ret
            /\ ret.dist_dir = val.dist_dir

\* C27: in a list get_client_runtime_entries returns, the process-env
\* asset is there exactly for the App and Pages context types, once and
\* first; the React Refresh entry is there exactly in the DevServer and
\* Development modes when it resolves, once and before every bootstrap
\* entry; and in Build mode there is no React Refresh entry and one
\* bootstrap entry for App or Pages, none for the other types.
C27_RuntimeEntriesOrder ==
    (call.fn = "get_client_runtime_entries" /\ call.ret.ok) =>
        LET e == call.ret.entries
            At(x) == {i \in 1..Len(e) : e[i] = x}
            Boot == {i \in 1..Len(e) : e[i] \in BootstrapEntries}
        IN  /\ At(ProcessEnvEntry) =
                  (IF call.ty \in {"App", "Pages"} THEN {1} ELSE {})
            /\ Cardinality(At(ReactRefreshEntry)) =
                  (IF call.mode \in {"DevServer", "Development"}
                        /\ call.refresh = "Request" THEN 1 ELSE 0)
            /\ \A i \in At(ReactRefreshEntry), j \in Boot : i < j
            /\ call.mode = "Build" =>
                  /\ At(ReactRefreshEntry) = {}
                  /\ Cardinality(Boot) =
                        (IF call.ty \in {"App", "Pages"} THEN 1 ELSE 0)
            /\ At(ProcessEnvEntry) \cup At(ReactRefreshEntry) \cup Boot = 1..Len(e)

C27_Witness ==
    /\ call.fn = "get_client_runtime_entries"
    /\ call.ty = "App" /\ call.mode = "Development" /\ call.refresh = "Request"
    /\ call.ret.entries = <<ProcessEnvEntry, ReactRefreshEntry,
                            "next/dist/client/app-next-dev-turbopack.js">>

====
